---- MODULE Spec2Model ----
(***************************************************************************)
(* Model of src/Crstea_Box.py: the Streamlit script that provisions the    *)
(* DuckDB file, runs the joined query, filters the enriched table and      *)
(* pivots it by route and date.                                            *)
(*                                                                         *)
(* Representation of values                                                *)
(*   - a nullable scalar is a tuple: <<>> is NULL / NaN / NaT, <<v>> a     *)
(*     value;                                                              *)
(*   - a timestamp is <<day, time-of-day>>; NaT is <<>>;                    *)
(*   - a DOUBLE is an IEEE 754 binary64 number [sign, m, e], the value     *)
(*     sign * m * 2^e; every quotient, sum and difference is rounded to    *)
(*     nearest, ties to even; a column sum adds as numpy does (pairwise),  *)
(*     a group sum as pandas does (compensated), a row sum as numpy does;  *)
(*   - a VARCHAR that the query trims is a sequence of characters;         *)
(*   - a table / DataFrame is a sequence of records;                       *)
(*   - a Python name that is not bound yet in this script run is <<>>,     *)
(*     a bound one is <<value>>.                                           *)
(***************************************************************************)
EXTENDS Integers, Sequences, FiniteSets

\* ------------------------------------------------------------------ bounds
\* Largest number of rows of a sales relation made of the sales rows.
MaxSales == 2
\* Largest number of times the database file is rewritten while the
\* process runs.
MaxChanges == 1
\* Number of days of the daily sales series (one date column each).
MaxDays == 8

\* ------------------------------------------------------------ null values
NULL == <<>>

IsNull(v) == v = <<>>

\* ------------------------------------------------------ natural numbers
\* The significand of a double and the exact sums and quotients it is
\* rounded from do not fit a machine integer: a natural number is a
\* sequence of limbs to the base 2^15, least significant limb first,
\* without a most significant zero limb (0 is <<>>).
LimbBits == 15

LimbBase == 2^LimbBits

Abs(x) == IF x < 0 THEN -x ELSE x

RECURSIVE BigTrim(_)
BigTrim(a) ==
    IF a = <<>> THEN a
    ELSE IF a[Len(a)] = 0 THEN BigTrim(SubSeq(a, 1, Len(a) - 1))
    ELSE a

RECURSIVE BigOfInt(_)
BigOfInt(n) ==
    IF n = 0 THEN <<>> ELSE <<n % LimbBase>> \o BigOfInt(n \div LimbBase)

Limb(a, i) == IF i <= Len(a) THEN a[i] ELSE 0

RECURSIVE BigAddFrom(_, _, _, _)
BigAddFrom(a, b, i, carry) ==
    IF i > Len(a) /\ i > Len(b)
    THEN BigOfInt(carry)
    ELSE LET x == Limb(a, i) + Limb(b, i) + carry
         IN  <<x % LimbBase>> \o BigAddFrom(a, b, i + 1, x \div LimbBase)

BigAdd(a, b) == BigAddFrom(a, b, 1, 0)

RECURSIVE BigSubFrom(_, _, _, _)
BigSubFrom(a, b, i, borrow) ==
    IF i > Len(a)
    THEN <<>>
    ELSE LET x == Limb(a, i) - Limb(b, i) - borrow
         IN  <<IF x < 0 THEN x + LimbBase ELSE x>>
                 \o BigSubFrom(a, b, i + 1, IF x < 0 THEN 1 ELSE 0)

\* a - b for a >= b
BigSub(a, b) == BigTrim(BigSubFrom(a, b, 1, 0))

RECURSIVE BigLessFrom(_, _, _)
BigLessFrom(a, b, i) ==
    IF i = 0 THEN FALSE
    ELSE IF a[i] # b[i] THEN a[i] < b[i]
    ELSE BigLessFrom(a, b, i - 1)

BigLess(a, b) ==
    IF Len(a) # Len(b) THEN Len(a) < Len(b) ELSE BigLessFrom(a, b, Len(a))

RECURSIVE BigMulSmallFrom(_, _, _, _)
BigMulSmallFrom(a, k, i, carry) ==
    IF i > Len(a)
    THEN BigOfInt(carry)
    ELSE LET x == a[i] * k + carry
         IN  <<x % LimbBase>> \o BigMulSmallFrom(a, k, i + 1, x \div LimbBase)

\* a * k for a limb k
BigMulSmall(a, k) == BigTrim(BigMulSmallFrom(a, k, 1, 0))

RECURSIVE BigMul(_, _)
\* a * b
BigMul(a, b) ==
    IF a = <<>> \/ b = <<>> THEN <<>>
    ELSE BigAdd(BigMulSmall(a, Head(b)), BigTrim(<<0>> \o BigMul(a, Tail(b))))

\* a * 2^n
BigShl(a, n) ==
    IF a = <<>> \/ n = 0 THEN a
    ELSE [i \in 1..(n \div LimbBits) |-> 0] \o BigMulSmall(a, 2^(n % LimbBits))

\* a \div 2^n
BigShr(a, n) ==
    LET w == n \div LimbBits
        r == n % LimbBits
        h == IF w >= Len(a) THEN <<>> ELSE SubSeq(a, w + 1, Len(a))
    IN  IF n = 0 THEN a
        ELSE BigTrim([i \in 1..Len(h) |->
                    (h[i] \div 2^r) + (Limb(h, i + 1) % 2^r) * 2^(LimbBits - r)])

\* a % 2^n
BigLow(a, n) ==
    LET w == n \div LimbBits
        r == n % LimbBits
    IN  IF w >= Len(a) THEN a
        ELSE BigTrim(SubSeq(a, 1, w) \o <<a[w + 1] % 2^r>>)

RECURSIVE IntBitLen(_)
IntBitLen(n) == IF n = 0 THEN 0 ELSE 1 + IntBitLen(n \div 2)

\* Number of bits of a: 0 for 0.
BigBitLen(a) ==
    IF a = <<>> THEN 0 ELSE LimbBits * (Len(a) - 1) + IntBitLen(a[Len(a)])

RECURSIVE IntTrailingZeros(_)
IntTrailingZeros(n) == IF n % 2 = 1 THEN 0 ELSE 1 + IntTrailingZeros(n \div 2)

RECURSIVE BigTrailingZeros(_)
\* Number of trailing zero bits of a # 0.
BigTrailingZeros(a) ==
    IF a[1] = 0 THEN LimbBits + BigTrailingZeros(Tail(a))
    ELSE IntTrailingZeros(a[1])

BigOdd(a) == a # <<>> /\ a[1] % 2 = 1

\* --------------------------------------------------------------- doubles
\* A DOUBLE / float64 is an IEEE 754 binary64 number: the record
\* [sign, m, e] is sign * m * 2^e with sign 1 or -1 and m an odd natural
\* number of at most Precision bits; zero is m = <<>>, e = 0.  Results are
\* rounded to nearest, ties to even.  The exponent is not bounded: the
\* quotients and sums of the script are those of machine integers, far
\* from overflow and from the subnormal range.
Precision == 53

\* sign * m * 2^e with the trailing zero bits of m moved to the exponent.
Normal(sign, m, e) ==
    IF m = <<>>
    THEN [sign |-> sign, m |-> <<>>, e |-> 0]
    ELSE LET z == BigTrailingZeros(m)
         IN  [sign |-> sign, m |-> BigShr(m, z), e |-> e + z]

\* The double nearest to sign * (m + t) * 2^e, ties to the even
\* significand, where 0 <= t < 1 and sticky tells whether t > 0 (then m
\* has more than Precision bits).
RoundNearestEven(sign, m, e, sticky) ==
    LET drop == BigBitLen(m) - Precision
    IN  IF drop <= 0
        THEN Normal(sign, m, e)
        ELSE LET q    == BigShr(m, drop)
                 r    == BigLow(m, drop)
                 half == BigShl(<<1>>, drop - 1)
                 up   == BigLess(half, r) \/ (r = half /\ (sticky \/ BigOdd(q)))
             IN  Normal(sign, IF up THEN BigAdd(q, <<1>>) ELSE q, e + drop)

Zero == [sign |-> 1, m |-> <<>>, e |-> 0]

\* CAST(n AS DOUBLE) of an integer n, which is exact.
DoubleOfInt(n) ==
    RoundNearestEven(IF n < 0 THEN -1 ELSE 1, BigOfInt(Abs(n)), 0, FALSE)

DoubleNeg(x) == [x EXCEPT !.sign = -x.sign]

RECURSIVE DivStep(_, _, _, _)
\* k more bits of the binary expansion of rem / c (rem < c): <<bits, rem>>.
DivStep(rem, c, k, acc) ==
    IF k = 0 THEN <<acc, rem>>
    ELSE IF 2 * rem >= c
    THEN DivStep(2 * rem - c, c, k - 1, 2 * acc + 1)
    ELSE DivStep(2 * rem, c, k - 1, 2 * acc)

\* The next limb of the binary expansion of rem / c (rem < c) and the
\* remainder left after it; in one step when rem * 2^15 is a machine
\* integer.
DivLimb(rem, c) ==
    IF c <= 2 * LimbBase
    THEN <<(rem * LimbBase) \div c, (rem * LimbBase) % c>>
    ELSE DivStep(rem, c, LimbBits, 0)

RECURSIVE FracLimbs(_, _, _)
\* n limbs of the binary expansion of rem / c (rem < c), and the remainder
\* left after them.
FracLimbs(rem, c, n) ==
    IF n = 0 THEN [limbs |-> <<>>, rem |-> rem]
    ELSE LET s    == DivLimb(rem, c)
             rest == FracLimbs(s[2], c, n - 1)
         IN  [limbs |-> rest.limbs \o <<s[1]>>, rem |-> rest.rem]

\* Limbs of the expansion of q / c (q # 0) that are computed before it is
\* rounded: enough for the leading zeros of the quotient, Precision bits
\* and a rounding bit.
QuotientLimbs(q, c) ==
    LET zeros == IF q < c THEN IntBitLen(c) - IntBitLen(q) + 1 ELSE 0
    IN  (zeros + Precision + 2) \div LimbBits + 1

\* CAST(q AS DOUBLE) / CAST(c AS DOUBLE) for integers q and c # 0: the
\* double nearest to q / c.  The bits of the quotient after those computed
\* are kept as one sticky bit.
DoubleDiv(q, c) ==
    LET sign == IF (q < 0) # (c < 0) THEN -1 ELSE 1
    IN  IF q = 0
        THEN [sign |-> sign, m |-> <<>>, e |-> 0]
        ELSE LET n == QuotientLimbs(Abs(q), Abs(c))
                 f == FracLimbs(Abs(q) % Abs(c), Abs(c), n)
                 m == BigTrim(f.limbs \o BigOfInt(Abs(q) \div Abs(c)))
             IN  RoundNearestEven(sign, m, -(LimbBits * n), f.rem # 0)

\* Number of bits by which the top bit of x lies above 2^0.
Top(x) == x.e + BigBitLen(x.m)

\* Exponent gap beyond which the smaller operand of a sum cannot change
\* the rounded result.
FarBelow == 2 * Precision + 2

\* x + y of two doubles: the exact sum, rounded.  The sum of two zeros of
\* opposite sign, and an exact sum of zero, is +0.
DoubleAdd(x, y) ==
    IF x.m = <<>> /\ y.m = <<>>
    THEN [Zero EXCEPT !.sign = IF x.sign = -1 /\ y.sign = -1 THEN -1 ELSE 1]
    ELSE IF x.m = <<>> THEN y
    ELSE IF y.m = <<>> THEN x
    ELSE IF Top(x) - Top(y) > FarBelow THEN x
    ELSE IF Top(y) - Top(x) > FarBelow THEN y
    ELSE LET e  == IF x.e < y.e THEN x.e ELSE y.e
             mx == BigShl(x.m, x.e - e)
             my == BigShl(y.m, y.e - e)
         IN  IF x.sign = y.sign
             THEN RoundNearestEven(x.sign, BigAdd(mx, my), e, FALSE)
             ELSE IF mx = my THEN Zero
             ELSE IF BigLess(mx, my)
             THEN RoundNearestEven(y.sign, BigSub(my, mx), e, FALSE)
             ELSE RoundNearestEven(x.sign, BigSub(mx, my), e, FALSE)

\* x <= y
DoubleLeq(x, y) ==
    LET d == DoubleAdd(y, DoubleNeg(x))
    IN  d.m = <<>> \/ d.sign = 1

\* ------------------------------------------------------- sequence helpers
RECURSIVE Flatten(_)
\* Concatenation of the sequences s[1], s[2], ...
Flatten(s) == IF s = <<>> THEN <<>> ELSE Head(s) \o Flatten(Tail(s))

Range(s) == {s[i] : i \in 1..Len(s)}

\* ------------------------------------------------------------ SQL helpers
\* A Code column value: an INTEGER n or a VARCHAR s (a sequence of
\* characters).
IntCode(n) == [kind |-> "INTEGER", n |-> n, s |-> <<>>]

StrCode(s) == [kind |-> "VARCHAR", n |-> 0, s |-> s]

DigitChar == <<"0", "1", "2", "3", "4", "5", "6", "7", "8", "9">>

RECURSIVE Digits(_)
\* Decimal digits of n >= 0.
Digits(n) ==
    IF n < 10 THEN <<DigitChar[n + 1]>>
    ELSE Append(Digits(n \div 10), DigitChar[(n % 10) + 1])

\* CAST(code AS VARCHAR)
CastVarchar(c) == IF c.kind = "INTEGER" THEN Digits(c.n) ELSE c.s

RECURSIVE LTrim(_)
LTrim(s) == IF s # <<>> /\ Head(s) = " " THEN LTrim(Tail(s)) ELSE s

RECURSIVE RTrim(_)
RTrim(s) ==
    IF s # <<>> /\ s[Len(s)] = " " THEN RTrim(SubSeq(s, 1, Len(s) - 1)) ELSE s

\* TRIM(s): leading and trailing spaces removed.
Trim(s) == RTrim(LTrim(s))

\* ON TRIM(CAST(s.Code AS VARCHAR)) = TRIM(CAST(p.Code AS VARCHAR))
CodeMatches(sCode, pCode) == Trim(CastVarchar(sCode)) = Trim(CastVarchar(pCode))

\* ON s.Route = sup.Route
RouteMatches(sRoute, supRoute) == sRoute = supRoute

\* Mutant of Crt_Box: the ratio rounded to the nearest integer.
MutCrt_BoxRounded(Qty, Cake) ==
    IF ~IsNull(Cake) /\ Cake[1] # 0
    THEN DoubleOfInt((2 * Qty + Cake[1]) \div (2 * Cake[1]))
    ELSE NULL

\* CASE WHEN p.Cake IS NOT NULL AND p.Cake <> 0
\*      THEN CAST(s.Qty AS DOUBLE) / CAST(p.Cake AS DOUBLE) ELSE NULL END
Crt_Box(Qty, Cake) ==
    IF ~IsNull(Cake) /\ Cake[1] # 0 THEN DoubleDiv(Qty, Cake[1]) ELSE NULL

\* The product columns of an unmatched sales row (LEFT JOIN Products).
NoProduct == [Cake |-> NULL, Cr_Bo |-> NULL]

\* Mutant of JoinProducts: an inner join, which drops an unmatched row.
MutJoinProductsInner(s, Products) ==
    LET hits == SelectSeq(Products, LAMBDA p : CodeMatches(s.Code, p.Code))
    IN  [i \in 1..Len(hits) |-> [Cake |-> hits[i].Cake, Cr_Bo |-> hits[i].Cr_Bo]]

\* The rows of Products joined to the sales row s; the all-NULL row when
\* none matches.
JoinProducts(s, Products) ==
    LET hits == SelectSeq(Products, LAMBDA p : CodeMatches(s.Code, p.Code))
    IN  IF hits = <<>> THEN <<NoProduct>>
        ELSE [i \in 1..Len(hits) |-> [Cake |-> hits[i].Cake, Cr_Bo |-> hits[i].Cr_Bo]]

\* The Supervisor values joined to the sales row s; NULL when no route
\* matches (LEFT JOIN Supervisors).
JoinSupervisors(s, Supervisors) ==
    LET hits == SelectSeq(Supervisors, LAMBDA u : RouteMatches(s.Route, u.Route))
    IN  IF hits = <<>> THEN <<NULL>>
        ELSE [i \in 1..Len(hits) |-> <<hits[i].Supervisor>>]

\* One row of the SELECT list for sales row s, product columns p and
\* supervisor sup (p.Description is projected away by load_data and is
\* not modelled).
SelectRow(s, p, sup) ==
    [Code       |-> s.Code,
     Sales_Date |-> s.Sales_Date,
     Qty        |-> s.Qty,
     Route      |-> s.Route,
     Cake       |-> p.Cake,
     Crates_Box |-> p.Cr_Bo,
     Supervisor |-> sup,
     Crt_Box    |-> Crt_Box(s.Qty, p.Cake)]

\* The result rows of one sales row: one per matching product and
\* matching supervisor.
RowsOfSale(s, d) ==
    LET ps == JoinProducts(s, d.Products)
        us == JoinSupervisors(s, d.Supervisors)
    IN  Flatten([k \in 1..Len(ps) |-> [j \in 1..Len(us) |-> SelectRow(s, ps[k], us[j])]])

\* conn.execute(query).fetchdf(): sales LEFT JOIN Products LEFT JOIN
\* Supervisors.  The query has no ORDER BY; the rows come in the order of
\* the sales relation, the matches of a row in the order of the joined
\* relations (SalesTables holds the rows of a relation in every order).
Query(d) == Flatten([i \in 1..Len(d.sales) |-> RowsOfSale(d.sales[i], d)])

\* complete_df[['Sales_Date', 'Route', 'Crates_Box', 'Crt_Box', 'Supervisor']]
Project(r) ==
    [Sales_Date |-> r.Sales_Date, Route |-> r.Route, Crates_Box |-> r.Crates_Box,
     Crt_Box |-> r.Crt_Box, Supervisor |-> r.Supervisor]

\* pd.to_datetime(v, errors='coerce'): a timestamp stays, anything else is NaT.
ToDatetime(v) == IF Len(v) = 2 THEN v ELSE NULL

\* df.dropna(subset=['Sales_Date'])
DropNaDates(df) == SelectSeq(df, LAMBDA r : ~IsNull(r.Sales_Date))

\* The body of load_data's try block: the enriched table.
LoadDataFrame(complete_df) ==
    LET df == [i \in 1..Len(complete_df) |->
                 [Project(complete_df[i]) EXCEPT
                     !.Sales_Date = ToDatetime(complete_df[i].Sales_Date)]]
    IN  DropNaDates(df)

\* ------------------------------------------------------- filter helpers
\* Mutant of DataEmpty: an empty table is not recognised.
MutDataEmptyNever(df) == FALSE

\* DataFrame.empty
DataEmpty(df) == df = <<>>

\* Timestamp.date() / .dt.date: the calendar day of a timestamp.
Date(ts) == ts[1]

\* col.strftime('%Y-%m-%d'): the label of a pivot column; the time of day
\* is not part of it (a day number stands for its YYYY-MM-DD text).
StrfDate(ts) == ts[1]

SetMin(S) == CHOOSE x \in S : \A y \in S : x <= y

SetMax(S) == CHOOSE x \in S : \A y \in S : y <= x

\* data['Sales_Date'].min().date()
MinDate(df) == SetMin({Date(df[i].Sales_Date) : i \in 1..Len(df)})

\* data['Sales_Date'].max().date()
MaxDate(df) == SetMax({Date(df[i].Sales_Date) : i \in 1..Len(df)})

\* Mutant of DateRangeInvalid: the range is not validated.
MutDateRangeNotValidated(start, end) == FALSE

\* start_date > end_date
DateRangeInvalid(start, end) == start > end

\* The options of the supervisor multiselect: the distinct non-null
\* values (the list is sorted for display; the model keeps the set).
SupervisorOptions(df) ==
    {df[i].Supervisor[1] : i \in {j \in 1..Len(df) : ~IsNull(df[j].Supervisor)}}

\* The options of the crates-per-box multiselect.
CratesBoxOptions(df) ==
    {df[i].Crates_Box[1] : i \in {j \in 1..Len(df) : ~IsNull(df[j].Crates_Box)}}

\* Mutant of IsIn: a null cell passes the selection.
MutIsInNullPasses(v, selected) == IsNull(v) \/ v[1] \in selected

\* Series.isin(selected) for one cell; selected holds no NaN, so a null
\* cell is never in it.
IsIn(v, selected) == ~IsNull(v) /\ v[1] \in selected

\* Mutant of RowMask: the end date taken as exclusive.
MutRowMaskOpenEnd(r, start, end, selSup, selCr) ==
    /\ Date(r.Sales_Date) >= start
    /\ Date(r.Sales_Date) < end
    /\ IsIn(r.Supervisor, selSup)
    /\ IsIn(r.Crates_Box, selCr)

\* The boolean mask of the row selection.
RowMask(r, start, end, selSup, selCr) ==
    /\ Date(r.Sales_Date) >= start
    /\ Date(r.Sales_Date) <= end
    /\ IsIn(r.Supervisor, selSup)
    /\ IsIn(r.Crates_Box, selCr)

\* filtered_data: the masked rows, or an empty DataFrame when a selection
\* is empty.
FilteredData(df, start, end, selSup, selCr) ==
    IF selSup # {} /\ selCr # {}
    THEN SelectSeq(df, LAMBDA r : RowMask(r, start, end, selSup, selCr))
    ELSE <<>>

\* ---------------------------------------------------------------- sums
\* fillna(0) for one cell
FillNa(v) == IF IsNull(v) THEN Zero ELSE v

\* x - y
DoubleSub(x, y) == DoubleAdd(x, DoubleNeg(y))

RECURSIVE LeftSumFrom(_, _)
\* acc + s[1] + s[2] + ..., each value added to the sum of those before.
LeftSumFrom(acc, s) ==
    IF s = <<>> THEN acc
    ELSE DoubleAdd(LeftSumFrom(acc, SubSeq(s, 1, Len(s) - 1)), s[Len(s)])

\* numpy adds a contiguous run of fewer than PairwiseUnroll values one
\* after the other, a longer one in PairwiseUnroll interleaved partial
\* sums, and splits a run of more than PairwiseBlock values in two.
PairwiseUnroll == 8

PairwiseBlock == 128

\* The k-th partial sum of the unrolled loop over the first full values
\* of s: s[k] + s[k + 8] + s[k + 16] + ...
PairwiseLane(s, k, full) ==
    LeftSumFrom(s[k], [j \in 1..((full \div PairwiseUnroll) - 1) |->
                           s[k + PairwiseUnroll * j]])

RECURSIVE PairwiseSum(_)
\* numpy's pairwise summation of the doubles of s (np.add.reduce over a
\* one-dimensional float64 array).
PairwiseSum(s) ==
    LET n == Len(s)
    IN  IF n < PairwiseUnroll THEN LeftSumFrom(Zero, s)
        ELSE IF n <= PairwiseBlock
        THEN LET full == n - (n % PairwiseUnroll)
                 r    == [k \in 1..PairwiseUnroll |-> PairwiseLane(s, k, full)]
                 res  == DoubleAdd(DoubleAdd(DoubleAdd(r[1], r[2]), DoubleAdd(r[3], r[4])),
                                   DoubleAdd(DoubleAdd(r[5], r[6]), DoubleAdd(r[7], r[8])))
             IN  LeftSumFrom(res, SubSeq(s, full + 1, n))
        ELSE LET half == n \div 2
                 n2   == half - (half % PairwiseUnroll)
             IN  DoubleAdd(PairwiseSum(SubSeq(s, 1, n2)), PairwiseSum(SubSeq(s, n2 + 1, n)))

\* Series.sum() of a float64 column (skipna=True, min_count=0): NaN is
\* replaced by 0 in place and the values are handed to numpy, whose
\* reduction starts from 0.
SeriesSum(s) == DoubleAdd(Zero, PairwiseSum([i \in 1..Len(s) |-> FillNa(s[i])]))

RECURSIVE KahanFrom(_, _, _)
\* The group-sum loop of pandas (Kahan summation) over the values s of
\* one group in row order, from running sum sumx and compensation comp:
\* a compensation that is not a number is reset to 0; NaN values are
\* skipped; y = val - comp, t = sumx + y, comp = t - sumx - y, sumx = t.
KahanFrom(sumx, comp, s) ==
    IF IsNull(comp) THEN KahanFrom(sumx, Zero, s)
    ELSE IF s = <<>> THEN sumx
    ELSE IF IsNull(Head(s)) THEN KahanFrom(sumx, comp, Tail(s))
    ELSE LET y == DoubleSub(Head(s), comp)
             t == DoubleAdd(sumx, y)
         IN  KahanFrom(t, DoubleSub(DoubleSub(t, sumx), y), Tail(s))

\* groupby(...).sum() of the values of one group (min_count=0): 0 when
\* every value is NaN.
KahanSum(s) == KahanFrom(Zero, Zero, s)

\* DataFrame.sum(axis=1) of one row (skipna=True, min_count=0): NaN is
\* replaced by 0 and numpy reduces the row, which is contiguous in the
\* array pivot() builds, from 0 by its pairwise summation.
AxisSum(cells) ==
    DoubleAdd(Zero, PairwiseSum([j \in 1..Len(cells) |-> FillNa(cells[j])]))

\* -------------------------------------------------------------- metrics
Metrics(fd, start, end) ==
    [records       |-> Len(fd),
     total_crt     |-> IF ~DataEmpty(fd) THEN SeriesSum([i \in 1..Len(fd) |-> fd[i].Crt_Box])
                       ELSE Zero,
     unique_routes |-> IF ~DataEmpty(fd) THEN Cardinality({fd[i].Route : i \in 1..Len(fd)})
                       ELSE 0,
     days          |-> (end - start) + 1]

\* ---------------------------------------------------------------- pivot
TsLess(a, b) == a[1] < b[1] \/ (a[1] = b[1] /\ a[2] < b[2])

RECURSIVE SortTs(_)
\* The timestamps of S in ascending order.
SortTs(S) ==
    IF S = {} THEN <<>>
    ELSE LET m == CHOOSE x \in S : \A y \in S \ {x} : TsLess(x, y)
         IN  <<m>> \o SortTs(S \ {m})

\* Mutant of GroupSum: a group sum that does not skip NaN.
MutGroupSumNoSkip(fd, ts, route) ==
    LET g == SelectSeq(fd, LAMBDA r : r.Sales_Date = ts /\ r.Route = route)
    IN  IF \E i \in 1..Len(g) : IsNull(g[i].Crt_Box) THEN NULL
        ELSE KahanSum([i \in 1..Len(g) |-> g[i].Crt_Box])

\* groupby(['Sales_Date', 'Route'])['Crt_Box'].sum() for one group: the
\* compensated sum of the ratios of its rows, in the order of the rows
\* of filtered_data.
GroupSum(fd, ts, route) ==
    LET g == SelectSeq(fd, LAMBDA r : r.Sales_Date = ts /\ r.Route = route)
    IN  KahanSum([i \in 1..Len(g) |-> g[i].Crt_Box])

\* pivot(index='Route', columns='Sales_Date', values='Crt_Box'): the cell
\* of a (route, timestamp) pair, NaN when the pair has no group.
PivotCell(fd, ts, route) ==
    IF \E i \in 1..Len(fd) : fd[i].Sales_Date = ts /\ fd[i].Route = route
    THEN GroupSum(fd, ts, route)
    ELSE NULL

\* Mutant of RowTotal: a sum that does not skip NaN.
MutRowTotalNoSkip(cells) ==
    IF \E j \in 1..Len(cells) : IsNull(cells[j]) THEN NULL ELSE AxisSum(cells)

\* pivot_table.sum(axis=1) of one row, taken before fillna.
RowTotal(cells) == AxisSum(cells)

\* One row of the finished pivot table: Total appended, NaN filled with 0.
PivotRow(fd, cols, route) ==
    LET cells == [j \in 1..Len(cols) |-> PivotCell(fd, cols[j], route)]
    IN  [Route |-> route,
         cells |-> [j \in 1..Len(cols) |-> FillNa(cells[j])],
         Total |-> FillNa(RowTotal(cells))]

\* sort_values('Total', ascending=False): rows in descending Total.
SortedByTotalDesc(rows) ==
    \A i \in 1..(Len(rows) - 1) : DoubleLeq(rows[i + 1].Total, rows[i].Total)

\* The pivot tables lines 178-191 can produce for filtered_data fd: the
\* order of rows with equal Total is left to the sort.
PivotTables(fd) ==
    LET cols   == SortTs({fd[i].Sales_Date : i \in 1..Len(fd)})
        routes == {fd[i].Route : i \in 1..Len(fd)}
        n      == Cardinality(routes)
        orders == {o \in [1..n -> routes] : \A i, j \in 1..n : o[i] = o[j] => i = j}
        rowOf  == [r \in routes |-> PivotRow(fd, cols, r)]
    IN  {p \in {[columns |-> [j \in 1..Len(cols) |-> StrfDate(cols[j])],
                 rows    |-> [i \in 1..n |-> rowOf[o[i]]]] : o \in orders} :
            SortedByTotalDesc(p.rows)}

\* pivot_table.style...background_gradient(...): the Styler refuses a
\* frame whose column labels are not unique.
StylerAccepts(p) ==
    \A i, j \in 1..Len(p.columns) : p.columns[i] = p.columns[j] => i = j

\* ------------------------------------------------------------ input sets
\* The databases the file can hold.  A sales row draws each column from a
\* small set; the two dimension relations are drawn from small sets of
\* tables that hold padded and differently typed codes, a zero and a NULL
\* cake count, a NULL crates-per-box, several products that match one
\* code, a cake count whose quotient is exact (3/4) and cake counts whose
\* quotients are rounded (3/15, 3/10, 3/7), a route with two supervisors
\* and routes with and without a supervisor.  One sales row joined to
\* four products and two supervisors gives eight result rows whose
\* ratios add up differently left to right, pairwise and compensated.
\* The daily series has a sale of route A on each of MaxDays days and one
\* of route B on the first, so that a pivot row has eight or more date
\* cells (3/30 each) and a row has cells to fill.
\* The sales rows: a code of either type on each of two days and routes,
\* a row without a date and a row at a second time of the first day.
SaleRows ==
    { [Code |-> IntCode(1), Sales_Date |-> <<0, 0>>, Qty |-> 3, Route |-> "A"],
      [Code |-> IntCode(1), Sales_Date |-> <<1, 0>>, Qty |-> 3, Route |-> "B"],
      [Code |-> StrCode(<<"2", " ">>), Sales_Date |-> <<1, 0>>, Qty |-> 3, Route |-> "B"],
      [Code |-> IntCode(1), Sales_Date |-> NULL, Qty |-> 3, Route |-> "A"],
      [Code |-> IntCode(1), Sales_Date |-> <<0, 1>>, Qty |-> 3, Route |-> "A"] }

ProductTables ==
    { << [Code |-> StrCode(<<" ", "1">>), Cake |-> <<15>>, Cr_Bo |-> <<1>>],
         [Code |-> StrCode(<<"1", " ">>), Cake |-> <<4>>,  Cr_Bo |-> <<1>>],
         [Code |-> IntCode(1),            Cake |-> <<10>>, Cr_Bo |-> <<1>>],
         [Code |-> StrCode(<<"1">>),      Cake |-> <<7>>,  Cr_Bo |-> <<1>>],
         [Code |-> IntCode(2),            Cake |-> <<0>>,  Cr_Bo |-> <<2>>],
         [Code |-> IntCode(3),            Cake |-> <<30>>, Cr_Bo |-> <<1>>] >>,
      << [Code |-> StrCode(<<"2">>),      Cake |-> NULL,  Cr_Bo |-> <<2>>],
         [Code |-> StrCode(<<"2", " ">>), Cake |-> <<4>>, Cr_Bo |-> NULL] >> }

SupervisorTables ==
    { << [Route |-> "A", Supervisor |-> "X"], [Route |-> "B", Supervisor |-> "Y"] >>,
      << [Route |-> "A", Supervisor |-> "X"], [Route |-> "A", Supervisor |-> "Y"] >> }

\* The daily sales series.
DailySales ==
    [d \in 1..MaxDays |->
        [Code |-> IntCode(3), Sales_Date |-> <<d - 1, 0>>, Qty |-> 3, Route |-> "A"]]
    \o << [Code |-> IntCode(3), Sales_Date |-> <<0, 0>>, Qty |-> 3, Route |-> "B"] >>

\* The sales relations: every table of up to MaxSales of the sales rows,
\* and the daily series.
SalesTables == UNION {[1..n -> SaleRows] : n \in 0..MaxSales} \cup {DailySales}

\* A file in which a relation or a column of the query is missing.
BrokenDb ==
    [relations_ok |-> FALSE, Products |-> <<>>, Supervisors |-> <<>>, sales |-> <<>>]

Databases ==
    {BrokenDb} \cup
    [relations_ok : {TRUE}, Products : ProductTables,
     Supervisors : SupervisorTables, sales : SalesTables]

\* The rows a rewrite of the file adds to the sales relation.
ChangedRows ==
    { [Code |-> IntCode(1), Sales_Date |-> <<1, 0>>, Qty |-> 3, Route |-> "A"] }

\* What the download block (lines 16-26) can end in: a 200 response whose
\* body is written, another status, an exception raised by requests.get
\* (or by open) before anything is written, or a 200 response whose
\* f.write raises after open created or truncated the file.
FetchOutcomes == {"200", "404", "exception", "write_error"}

\* Mutant of FetchFailed: the status of the response is not checked.
MutFetchFailedStatusIgnored(outcome) == outcome \notin {"200", "404"}

\* The download block did not reach st.success: resp.status_code != 200,
\* or an exception was raised inside the try.
FetchFailed(outcome) == outcome # "200"

\* The file the download block leaves at db_filename.
FileAfterFetch(outcome, before) ==
    IF outcome = "200" THEN "complete"
    ELSE IF outcome = "write_error" THEN "partial"
    ELSE before

\* The element the failed download block shows before st.stop().
FetchError(outcome) ==
    IF outcome = "404"
    THEN "error:Failed to download database"
    ELSE "error:Error downloading database"

\* The elements a cached function rendered, which Streamlit stores with
\* the cached value and replays on a cache hit.
Rendered(elements) == elements \ {"title"}

\* ----------------------------------------------------------------- state
VARIABLES
    remote,               \* the database the URL serves
    db,                   \* the database dispatch.duckdb holds when it is
                          \* written in full
    file,                 \* dispatch.duckdb: "absent", "complete" or "partial"
    conn,                 \* st.cache_resource entry of get_duckdb: <<>> or
                          \* <<elements rendered with the open connection>>
    cache,                \* st.cache_data entry of load_data: <<>> or
                          \* <<[df, elements]>>
    changes,              \* times the file was rewritten after start-up
    pc,                   \* position of the script run
    fetched,              \* outcome of this run's download: <<>> or <<outcome>>
    ui,                   \* elements rendered by the current script run
    complete_df,          \* load_data's local query result: <<>> or <<table>>
    data,                 \* the enriched table of this run
    start_date,
    end_date,
    selected_supervisors,
    selected_crates_box,
    filtered_data,
    metrics,
    pivot_table

vars ==
    <<remote, db, file, conn, cache, changes, pc, fetched, ui, complete_df,
      data, start_date, end_date, selected_supervisors, selected_crates_box,
      filtered_data, metrics, pivot_table>>

Init ==
    /\ db \in Databases
    /\ remote = db
    /\ file \in {"absent", "complete"}
    /\ conn = <<>>
    /\ cache = <<>>
    /\ changes = 0
    /\ pc = "start"
    /\ fetched = <<>>
    /\ ui = {"title"}
    /\ complete_df = <<>>
    /\ data = <<>>
    /\ start_date = <<>>
    /\ end_date = <<>>
    /\ selected_supervisors = <<>>
    /\ selected_crates_box = <<>>
    /\ filtered_data = <<>>
    /\ metrics = <<>>
    /\ pivot_table = <<>>

\* A user interaction reruns the script from its first line, whether the
\* previous run has ended or is still between two of its steps (a run
\* that waits for its download is ended at the element it renders next):
\* the names of that run are gone and the page shows the title only.  The
\* file and the two caches are kept.
rerun ==
    /\ pc # "start"
    /\ pc' = "start"
    /\ fetched' = <<>>
    /\ ui' = {"title"}
    /\ complete_df' = <<>>
    /\ data' = <<>>
    /\ start_date' = <<>>
    /\ end_date' = <<>>
    /\ selected_supervisors' = <<>>
    /\ selected_crates_box' = <<>>
    /\ filtered_data' = <<>>
    /\ metrics' = <<>>
    /\ pivot_table' = <<>>
    /\ UNCHANGED <<remote, db, file, conn, cache, changes>>

\* ------------------------------------------------------------- get_duckdb
\* load_data misses its cache and calls get_duckdb.  A cached connection
\* is returned with the elements of the call that opened it.  Otherwise
\* os.path.exists is tested: when the file is absent the request is sent
\* and the run waits for the response, when it is there duckdb.connect
\* is next.
get_duckdb ==
    /\ pc = "start"
    /\ cache = <<>>
    /\ IF conn # <<>>
       THEN /\ ui' = ui \cup conn[1]
            /\ pc' = "connected"
       ELSE /\ ui' = ui
            /\ pc' = IF file = "absent" THEN "fetching" ELSE "connecting"
    /\ UNCHANGED <<remote, db, file, conn, cache, changes, fetched, complete_df,
                   data, start_date, end_date, selected_supervisors,
                   selected_crates_box, filtered_data, metrics, pivot_table>>

\* requests.get returns or raises and the rest of the download block
\* runs: a failure shows its error and stops the run; a 200 response is
\* written over whatever is at the path and the success is shown.
download ==
    /\ pc = "fetching"
    /\ \E outcome \in FetchOutcomes :
        /\ fetched' = <<outcome>>
        /\ file' = FileAfterFetch(outcome, file)
        /\ IF FetchFailed(outcome)
           THEN \* st.error(...); st.stop()
                /\ ui' = ui \cup {FetchError(outcome)}
                /\ pc' = "stopped"
                /\ db' = db
           ELSE /\ ui' = ui \cup {"success:downloaded"}
                /\ pc' = "connecting"
                /\ db' = remote
    /\ UNCHANGED <<remote, conn, cache, changes, complete_df, data, start_date,
                   end_date, selected_supervisors, selected_crates_box,
                   filtered_data, metrics, pivot_table>>

\* duckdb.connect (outside the try) returns a connection, which is cached
\* with the elements rendered so far, or raises; what it raises passes
\* through load_data to the handler of the script body, which ends the
\* run.
connect ==
    /\ pc = "connecting"
    /\ \E connected \in BOOLEAN :
        IF connected
        THEN /\ conn' = <<Rendered(ui)>>
             /\ ui' = ui
             /\ pc' = "connected"
        ELSE /\ conn' = conn
             /\ ui' = ui \cup {"error:Error loading data"}
             /\ pc' = "done"
    /\ UNCHANGED <<remote, db, file, cache, changes, fetched, complete_df, data,
                   start_date, end_date, selected_supervisors,
                   selected_crates_box, filtered_data, metrics, pivot_table>>

\* -------------------------------------------------------------- load_data
\* What an open connection reads: the database of a file that holds the
\* full body.  A file that open() created and f.write did not fill is
\* empty or truncated: either duckdb.connect raises on it (the raising
\* outcome of connect), or it opens as a database without the
\* relations of the query and the query raises.
FileContents(d, f) == IF f = "partial" THEN BrokenDb ELSE d

\* The query result load_data returns and the error it shows: the
\* enriched table, or an empty DataFrame after a query error.
LoadDataResult(d) ==
    IF d.relations_ok
    THEN LET result == Query(d)
         IN  [complete_df |-> <<result>>, df |-> LoadDataFrame(result),
              errors |-> {}]
    ELSE [complete_df |-> <<>>, df |-> <<>>, errors |-> {"error:Error executing query"}]

\* The body of load_data after get_duckdb returned; the result is cached
\* with the elements rendered inside the call.
load_data ==
    /\ pc = "connected"
    /\ LET r == LoadDataResult(FileContents(db, file))
       IN  /\ complete_df' = r.complete_df
           /\ data' = r.df
           /\ cache' = <<[df |-> r.df, elements |-> Rendered(ui \cup r.errors)]>>
           /\ ui' = ui \cup r.errors
    /\ pc' = "loaded"
    /\ UNCHANGED <<remote, db, file, conn, changes, fetched, start_date, end_date,
                   selected_supervisors, selected_crates_box, filtered_data,
                   metrics, pivot_table>>

\* Mutant of load_data_cached: the table is recomputed from the file in
\* every run.
MutLoadDataRecomputes ==
    /\ pc = "start"
    /\ cache # <<>>
    /\ LET r == LoadDataResult(FileContents(db, file))
       IN  /\ data' = r.df
           /\ cache' = <<[df |-> r.df, elements |-> cache[1].elements]>>
    /\ ui' = ui \cup cache[1].elements
    /\ pc' = "loaded"
    /\ UNCHANGED <<remote, db, file, conn, changes, fetched, complete_df,
                   start_date, end_date, selected_supervisors, selected_crates_box,
                   filtered_data, metrics, pivot_table>>

\* load_data answered by st.cache_data: the body does not run, the
\* cached table is returned and the cached elements are shown again.
load_data_cached ==
    /\ pc = "start"
    /\ cache # <<>>
    /\ data' = cache[1].df
    /\ ui' = ui \cup cache[1].elements
    /\ pc' = "loaded"
    /\ UNCHANGED <<remote, db, file, conn, cache, changes, fetched, complete_df,
                   start_date, end_date, selected_supervisors, selected_crates_box,
                   filtered_data, metrics, pivot_table>>

\* ------------------------------------------------------------ script body
\* load_data has returned (its local complete_df is gone);
\* if data.empty: st.error(...); st.stop()
check_empty ==
    /\ pc = "loaded"
    /\ complete_df' = <<>>
    /\ IF DataEmpty(data)
       THEN /\ ui' = ui \cup {"error:No data loaded"}
            /\ pc' = "stopped"
       ELSE /\ ui' = ui \cup {"sidebar:filters"}
            /\ pc' = "sidebar"
    /\ UNCHANGED <<remote, db, file, conn, cache, changes, fetched, data, start_date, end_date,
                   selected_supervisors, selected_crates_box, filtered_data,
                   metrics, pivot_table>>

\* The two date inputs, each bounded by the data's first and last day,
\* and the validation of the range.
date_inputs ==
    /\ pc = "sidebar"
    /\ \E s, e \in MinDate(data)..MaxDate(data) :
        /\ start_date' = <<s>>
        /\ end_date' = <<e>>
        /\ IF DateRangeInvalid(s, e)
           THEN /\ ui' = ui \cup {"sidebar:date_inputs",
                                  "error:Start date must be before end date"}
                /\ pc' = "stopped"
           ELSE /\ ui' = ui \cup {"sidebar:date_inputs"}
                /\ pc' = "dates_ok"
    /\ UNCHANGED <<remote, db, file, conn, cache, changes, fetched, complete_df, data,
                   selected_supervisors, selected_crates_box, filtered_data,
                   metrics, pivot_table>>

\* The elements lines 171-230 render for filtered_data fd and pivot
\* table p (<<>> when fd is empty): the warning, or the pivot and the two
\* exports, or, when the display raises, the error of the script's
\* handler.
PivotElements(fd, p) ==
    IF DataEmpty(fd) THEN {"warning:No data available"}
    ELSE IF StylerAccepts(p[1])
    THEN {"pivot", "download:pivot", "raw", "download:raw"}
    ELSE {"error:Error loading data"}

\* The rest of the script, which runs to its end without another stop:
\* the two multiselects (an empty option list shows a warning and selects
\* nothing), the row selection, the four summary metrics, the pivot
\* table, its display and the two exports.
show_dashboard ==
    /\ pc = "dates_ok"
    /\ \E selSup \in SUBSET SupervisorOptions(data),
          selCr \in SUBSET CratesBoxOptions(data) :
        LET fd == FilteredData(data, start_date[1], end_date[1], selSup, selCr)
        IN  /\ selected_supervisors' = <<selSup>>
            /\ selected_crates_box' = <<selCr>>
            /\ filtered_data' = <<fd>>
            /\ metrics' = <<Metrics(fd, start_date[1], end_date[1])>>
            /\ \E p \in IF DataEmpty(fd) THEN {<<>>}
                        ELSE {<<t>> : t \in PivotTables(fd)} :
                /\ pivot_table' = p
                /\ ui' = ui \cup {"metrics"} \cup
                         (IF SupervisorOptions(data) # {}
                          THEN {"sidebar:supervisors"}
                          ELSE {"warning:No supervisors found"}) \cup
                         (IF CratesBoxOptions(data) # {}
                          THEN {"sidebar:crates_box"}
                          ELSE {"warning:No Crates/Box values found"}) \cup
                         PivotElements(fd, p)
    /\ pc' = "done"
    /\ UNCHANGED <<remote, db, file, conn, cache, changes, fetched, complete_df, data,
                   start_date, end_date>>

\* ------------------------------------------------------------ environment
\* The database file is written in full from outside the script, with one
\* more sales row (the sales relation stays within MaxSales rows): before
\* a run of a process that has loaded its data reads anything, while a
\* run waits for its download, or before a run connects.
ChangeFile ==
    /\ \/ pc = "start" /\ cache # <<>>
       \/ pc \in {"fetching", "connecting"}
    /\ changes < MaxChanges
    /\ Len(db.sales) < MaxSales
    /\ \E r \in ChangedRows : db' = [db EXCEPT !.sales = Append(@, r)]
    /\ file' = "complete"
    /\ changes' = changes + 1
    /\ UNCHANGED <<remote, conn, cache, pc, fetched, ui, complete_df, data,
                   start_date, end_date, selected_supervisors, selected_crates_box,
                   filtered_data, metrics, pivot_table>>

Next ==
    \/ rerun
    \/ get_duckdb
    \/ download
    \/ connect
    \/ load_data
    \/ load_data_cached
    \/ check_empty
    \/ date_inputs
    \/ show_dashboard
    \/ ChangeFile

Spec == Init /\ [][Next]_vars

\* ================================================================ claims
\* Helpers of the claims: counting and summing written independently of
\* the operators that model the code.
RECURSIVE DoubleSum(_)
\* Sum of a sequence of doubles, added in the order of the sequence.
DoubleSum(s) ==
    IF s = <<>> THEN Zero
    ELSE DoubleAdd(DoubleSum(SubSeq(s, 1, Len(s) - 1)), s[Len(s)])

\* The double x is within half a unit in its last place of q / c: it is
\* a double nearest to the quotient.
NearestToQuotient(x, q, c) ==
    LET ulp  == Top(x) - Precision
        n    == BigMul(BigShl(x.m, x.e - ulp), BigOfInt(Abs(c)))
        d    == BigShl(BigOfInt(Abs(q)), -ulp)
        diff == IF BigLess(n, d) THEN BigSub(d, n) ELSE BigSub(n, d)
    IN  /\ BigBitLen(x.m) <= Precision
        /\ x.sign = (IF (q < 0) # (c < 0) THEN -1 ELSE 1)
        /\ IF q = 0 THEN x.m = <<>>
           ELSE /\ x.m # <<>>
                /\ ulp < 0
                /\ ~BigLess(BigOfInt(Abs(c)), BigShl(diff, 1))

\* x + y, not rounded.
ExactAdd(x, y) ==
    IF x.m = <<>> THEN y
    ELSE IF y.m = <<>> THEN x
    ELSE LET e  == IF x.e < y.e THEN x.e ELSE y.e
             mx == BigShl(x.m, x.e - e)
             my == BigShl(y.m, y.e - e)
         IN  IF x.sign = y.sign THEN Normal(x.sign, BigAdd(mx, my), e)
             ELSE IF mx = my THEN Zero
             ELSE IF BigLess(mx, my) THEN Normal(y.sign, BigSub(my, mx), e)
             ELSE Normal(x.sign, BigSub(mx, my), e)

RECURSIVE ExactSum(_)
\* The sum of the doubles of s as a real number: no addition is rounded,
\* so the order does not matter.
ExactSum(s) ==
    IF s = <<>> THEN Zero
    ELSE ExactAdd(ExactSum(SubSeq(s, 1, Len(s) - 1)), s[Len(s)])

\* |a| <= |b|
MagnitudeLeq(a, b) ==
    LET e == IF a.e < b.e THEN a.e ELSE b.e
    IN  ~BigLess(BigShl(b.m, b.e - e), BigShl(a.m, a.e - e))

\* The double x is the sum of the doubles xs up to the rounding of k
\* additions: |x - sum of xs| <= k * 2^-53 * sum of |xs|.
SumWithin(x, xs, k) ==
    LET size == ExactSum([i \in 1..Len(xs) |-> [xs[i] EXCEPT !.sign = 1]])
        diff == ExactAdd(x, DoubleNeg(ExactSum(xs)))
    IN  MagnitudeLeq(diff, [sign |-> 1, m |-> BigMulSmall(size.m, k),
                            e |-> size.e - Precision])

\* Number of rows of table df equal to r.
CountOf(df, r) == Cardinality({i \in 1..Len(df) : df[i] = r})

\* The ratios of the rows of table df.
Ratios(df) == [i \in 1..Len(df) |-> df[i].Crt_Box]

\* ------------------------------------------------------------------- C1
\* The row is one the claim says the filter keeps.
C1_Kept(r) ==
    /\ start_date[1] <= r.Sales_Date[1]
    /\ r.Sales_Date[1] <= end_date[1]
    /\ r.Supervisor \in {<<s>> : s \in selected_supervisors[1]}
    /\ r.Crates_Box \in {<<c>> : c \in selected_crates_box[1]}

\* C1: whenever a filtered table exists (so start <= end), it holds
\* exactly the rows of the base table whose day lies in [start, end] and
\* whose supervisor and crates-per-box are selected, each as often as the
\* base table holds it; no filtered row lies outside [start, end]; with an
\* empty selection the filtered table is empty.
C1_FilterExact ==
    filtered_data # <<>> =>
        /\ start_date[1] <= end_date[1]
        /\ \A r \in Range(data) \cup Range(filtered_data[1]) :
               CountOf(filtered_data[1], r) = IF C1_Kept(r) THEN CountOf(data, r) ELSE 0
        /\ \A i \in 1..Len(filtered_data[1]) :
               /\ filtered_data[1][i].Sales_Date[1] >= start_date[1]
               /\ filtered_data[1][i].Sales_Date[1] <= end_date[1]
        /\ (selected_supervisors[1] = {} \/ selected_crates_box[1] = {})
               => filtered_data[1] = <<>>

\* C1 witness: a filter kept some rows and rejected a row for its date,
\* in a run whose base table also has a row on the end date.
C1_Witness ==
    /\ pc = "done"
    /\ filtered_data # <<>>
    /\ filtered_data[1] # <<>>
    /\ \E i \in 1..Len(data) : data[i].Sales_Date[1] > end_date[1]
    /\ \E i \in 1..Len(filtered_data[1]) :
           filtered_data[1][i].Sales_Date[1] = end_date[1]

\* ------------------------------------------------------------------- C2
\* C2: in every pivot table produced, the Total of each route row is the
\* sum of the row's date cells as displayed (missing cells filled with 0):
\* the float64 sum numpy forms of the displayed cells from 0 (left to
\* right below eight cells, pairwise from eight on), which is their real
\* sum up to one rounding per cell.
C2_TotalIsRowSum ==
    pivot_table # <<>> =>
        \A i \in 1..Len(pivot_table[1].rows) :
            LET cells == pivot_table[1].rows[i].cells
                Total == pivot_table[1].rows[i].Total
            IN  /\ \A j \in 1..Len(cells) : cells[j] # NULL
                /\ Total = DoubleAdd(Zero, PairwiseSum(cells))
                /\ Len(cells) < PairwiseUnroll => Total = DoubleSum(cells)
                /\ SumWithin(Total, cells, Len(cells))

\* C2 witness: a pivot with a route row that has a filled (zero) cell next
\* to a non-zero one, so that its Total is not zero, and a route row of
\* eight or more cells whose Total is not their sum taken left to right.
C2_Witness ==
    /\ pivot_table # <<>>
    /\ \E i \in 1..Len(pivot_table[1].rows) :
           /\ pivot_table[1].rows[i].Total # Zero
           /\ \E j \in 1..Len(pivot_table[1].rows[i].cells) :
                  pivot_table[1].rows[i].cells[j] = Zero
    /\ \E i \in 1..Len(pivot_table[1].rows) :
           /\ Len(pivot_table[1].rows[i].cells) >= PairwiseUnroll
           /\ pivot_table[1].rows[i].Total # DoubleSum(pivot_table[1].rows[i].cells)

\* ------------------------------------------------------------------- C3
\* Sales row s has a valid date.
C3_ValidDate(s) == Len(s.Sales_Date) = 2

C3_NoProduct(s) == \A k \in 1..Len(db.Products) : ~CodeMatches(s.Code, db.Products[k].Code)

C3_NoSupervisor(s) == \A k \in 1..Len(db.Supervisors) : s.Route # db.Supervisors[k].Route

\* C3: when load_data has run its query, every sales row with a valid
\* date is in the returned table (the table holds, for each date and
\* route, at least as many rows as the sales relation), with NULL
\* crates-per-box and ratio when no product matches its code and NULL
\* supervisor when no supervisor row matches its route.
C3_LeftJoinKeepsRows ==
    (pc = "loaded" /\ complete_df # <<>>) =>
        \A i \in 1..Len(db.sales) :
            C3_ValidDate(db.sales[i]) =>
                /\ \E j \in 1..Len(data) :
                       /\ data[j].Sales_Date = db.sales[i].Sales_Date
                       /\ data[j].Route = db.sales[i].Route
                       /\ C3_NoProduct(db.sales[i]) =>
                              (data[j].Crates_Box = NULL /\ data[j].Crt_Box = NULL)
                       /\ C3_NoSupervisor(db.sales[i]) => data[j].Supervisor = NULL
                /\ Cardinality({j \in 1..Len(data) :
                                    /\ data[j].Sales_Date = db.sales[i].Sales_Date
                                    /\ data[j].Route = db.sales[i].Route})
                   >= Cardinality({k \in 1..Len(db.sales) :
                                    /\ db.sales[k].Sales_Date = db.sales[i].Sales_Date
                                    /\ db.sales[k].Route = db.sales[i].Route})

\* C3 witness: load_data returned a table for a database with a dated
\* sales row that matches no product and one that matches no supervisor.
C3_Witness ==
    /\ pc = "loaded"
    /\ complete_df # <<>>
    /\ \E i \in 1..Len(db.sales) : C3_ValidDate(db.sales[i]) /\ C3_NoProduct(db.sales[i])
    /\ \E i \in 1..Len(db.sales) : C3_ValidDate(db.sales[i]) /\ C3_NoSupervisor(db.sales[i])

\* ------------------------------------------------------------------- C4
\* C4: in every row of the query result, the ratio is NULL when the cake
\* count is NULL or zero, and otherwise is the double nearest to
\* quantity / cake count (within half a unit in the last place of a
\* 53-bit significand, so it is not rounded to anything coarser); every
\* row of the enriched table carries the ratio of a row of the query
\* result.
C4_RatioExact ==
    (pc = "loaded" /\ complete_df # <<>>) =>
        /\ \A i \in 1..Len(complete_df[1]) :
               LET r == complete_df[1][i]
               IN  IF r.Cake = NULL \/ r.Cake = <<0>>
                   THEN r.Crt_Box = NULL
                   ELSE /\ r.Crt_Box # NULL
                        /\ NearestToQuotient(r.Crt_Box, r.Qty, r.Cake[1])
        /\ \A j \in 1..Len(data) :
               \E i \in 1..Len(complete_df[1]) :
                   /\ complete_df[1][i].Sales_Date = data[j].Sales_Date
                   /\ complete_df[1][i].Route = data[j].Route
                   /\ complete_df[1][i].Crates_Box = data[j].Crates_Box
                   /\ complete_df[1][i].Supervisor = data[j].Supervisor
                   /\ complete_df[1][i].Crt_Box = data[j].Crt_Box

\* C4 witness: a query result with a non-integer ratio that is exact, a
\* ratio that is rounded to 53 bits and a row with a zero cake count.
C4_Witness ==
    /\ pc = "loaded"
    /\ complete_df # <<>>
    /\ \E i \in 1..Len(complete_df[1]) :
           /\ complete_df[1][i].Crt_Box # NULL
           /\ complete_df[1][i].Crt_Box.e < 0
           /\ BigBitLen(complete_df[1][i].Crt_Box.m) < Precision
    /\ \E i \in 1..Len(complete_df[1]) :
           /\ complete_df[1][i].Crt_Box # NULL
           /\ BigBitLen(complete_df[1][i].Crt_Box.m) = Precision
    /\ \E i \in 1..Len(complete_df[1]) : complete_df[1][i].Cake = <<0>>

\* ------------------------------------------------------------------- C5
\* The non-null ratios of the rows of table df with the given route and
\* day, in the order of the rows.
C5_RatiosOf(df, route, day) ==
    Ratios(SelectSeq(df, LAMBDA r :
               r.Route = route /\ r.Sales_Date[1] = day /\ r.Crt_Box # NULL))

\* C5: in the displayed and exported pivot, every route and every day of
\* the filtered rows has its row and its column, and the cell of each
\* (route, day) pair is the sum of the non-null ratios of the filtered
\* rows of that route and day: it is the float64 sum pandas forms of
\* exactly these ratios (compensated, in the order of the filtered
\* rows), it differs from their sum as real numbers by no more than the
\* rounding of three additions, and so it is 0 when they all have a null
\* ratio and 0 (never null) when the pair has no filtered row.
C5_CellIsNullSafeSum ==
    "pivot" \in ui =>
        LET p  == pivot_table[1]
            fd == filtered_data[1]
        IN  /\ \A k \in 1..Len(fd) :
                   /\ \E i \in 1..Len(p.rows) : p.rows[i].Route = fd[k].Route
                   /\ \E j \in 1..Len(p.columns) : p.columns[j] = fd[k].Sales_Date[1]
            /\ \A i \in 1..Len(p.rows) : \A j \in 1..Len(p.columns) :
                   LET xs == C5_RatiosOf(fd, p.rows[i].Route, p.columns[j])
                   IN  /\ p.rows[i].cells[j] # NULL
                       /\ p.rows[i].cells[j] = KahanSum(xs)
                       /\ SumWithin(p.rows[i].cells[j], xs, 3)
                       /\ xs = <<>> => p.rows[i].cells[j] = Zero

\* C5 witness: a displayed pivot with a (route, day) pair whose filtered
\* rows all have a null ratio, a (route, day) pair without any filtered
\* row, and a pair of three or more ratios whose cell is not what adding
\* them one after the other gives.
C5_Witness ==
    /\ "pivot" \in ui
    /\ LET p  == pivot_table[1]
           fd == filtered_data[1]
       IN  /\ \E i \in 1..Len(p.rows) : \E j \in 1..Len(p.columns) :
                  /\ \E k \in 1..Len(fd) :
                         fd[k].Route = p.rows[i].Route /\ fd[k].Sales_Date[1] = p.columns[j]
                  /\ \A k \in 1..Len(fd) :
                         (fd[k].Route = p.rows[i].Route /\ fd[k].Sales_Date[1] = p.columns[j])
                             => fd[k].Crt_Box = NULL
           /\ \E i \in 1..Len(p.rows) : \E j \in 1..Len(p.columns) :
                  \A k \in 1..Len(fd) :
                      ~(fd[k].Route = p.rows[i].Route /\ fd[k].Sales_Date[1] = p.columns[j])
           /\ \E i \in 1..Len(p.rows) : \E j \in 1..Len(p.columns) :
                  LET xs == C5_RatiosOf(fd, p.rows[i].Route, p.columns[j])
                  IN  Len(xs) >= 3 /\ p.rows[i].cells[j] # DoubleSum(xs)

\* ------------------------------------------------------------------- C6
\* What a run renders or computes after the date validation.
AfterValidation ==
    {"sidebar:supervisors", "sidebar:crates_box", "warning:No supervisors found",
     "warning:No Crates/Box values found", "metrics", "pivot", "download:pivot",
     "raw", "download:raw", "warning:No data available"}

\* C6: in a run whose chosen start date is later than its chosen end
\* date, the validation error is shown and the run has stopped with the
\* dates as chosen: no selection, filtered table, metrics, pivot or
\* export exists.
C6_InvalidRangeStops ==
    (start_date # <<>> /\ end_date # <<>> /\ start_date[1] > end_date[1]) =>
        /\ pc = "stopped"
        /\ "error:Start date must be before end date" \in ui
        /\ selected_supervisors = <<>>
        /\ selected_crates_box = <<>>
        /\ filtered_data = <<>>
        /\ metrics = <<>>
        /\ pivot_table = <<>>
        /\ ui \cap AfterValidation = {}

\* C6 witness: a run stopped on a start date later than the end date.
C6_Witness ==
    /\ pc = "stopped"
    /\ start_date # <<>>
    /\ end_date # <<>>
    /\ start_date[1] > end_date[1]
    /\ "error:Start date must be before end date" \in ui

\* ------------------------------------------------------------------- C7
\* C7 (state part): a run whose download failed has stopped with the
\* download error shown and without connection, query result or table;
\* and while the file is absent no connection is open, no query result
\* is cached and no run is past the download.
C7_FailedFetchState ==
    /\ (fetched # <<>> /\ fetched[1] # "200") =>
           /\ pc = "stopped"
           /\ FetchError(fetched[1]) \in ui
           /\ "success:downloaded" \notin ui
           /\ conn = <<>>
           /\ cache = <<>>
           /\ complete_df = <<>>
           /\ data = <<>>
    /\ file = "absent" =>
           /\ conn = <<>>
           /\ cache = <<>>
           /\ pc \in {"start", "fetching", "stopped"}

\* C7 (step part): the step that ends the wait of a run for its download
\* either writes the full body of its 200 response and shows the
\* success, or stops the run; after a non-200 status or an exception of
\* the request it leaves the path as it is, written by nobody or by
\* somebody else during the wait.
C7_FetchStep ==
    (pc = "fetching" /\ pc' \notin {"start", "fetching"}) =>
        IF fetched' = <<"200">>
        THEN /\ file' = "complete"
             /\ db' = remote
             /\ "success:downloaded" \in ui'
             /\ pc' = "connecting"
        ELSE /\ pc' = "stopped"
             /\ fetched' # <<>>
             /\ FetchError(fetched'[1]) \in ui'
             /\ conn' = <<>>
             /\ fetched'[1] \in {"404", "exception"} =>
                    (file' = file /\ db' = db)

\* C7: when the file is absent and the fetch fails by a non-200 status
\* or an exception of the request, get_duckdb stops the run with the
\* error shown, writes nothing, opens no connection and no query runs;
\* and a run that finds the file absent gets past the download only
\* with the full body written by its own successful fetch, so no later
\* run proceeds with the file such a failure left absent.
C7_FetchFailureHalts ==
    /\ []C7_FailedFetchState
    /\ [][C7_FetchStep]_vars

\* C7 witness: a run stopped on a non-200 status with the file absent.
C7_Witness ==
    /\ pc = "stopped"
    /\ fetched = <<"404">>
    /\ file = "absent"
    /\ "error:Failed to download database" \in ui

\* ------------------------------------------------------------------- C8
\* What a run renders after the check for an empty table.
AfterEmptyCheck ==
    AfterValidation \cup {"sidebar:filters", "sidebar:date_inputs",
                          "error:Start date must be before end date"}

\* C8 (state part): a run that showed the query error has an empty table
\* and is either at the check for an empty table or stopped there with
\* the "no data" error; it rendered no filter, metric, pivot or export.
C8_QueryErrorState ==
    "error:Error executing query" \in ui =>
        /\ data = <<>>
        /\ pc \in {"loaded", "stopped"}
        /\ pc = "stopped" => "error:No data loaded" \in ui
        /\ ui \cap AfterEmptyCheck = {}
        /\ start_date = <<>>
        /\ filtered_data = <<>>
        /\ metrics = <<>>
        /\ pivot_table = <<>>

\* C8: the query of a file with a missing relation or column shows the
\* query error, and a run that showed it stops before any filter control,
\* metric, pivot or export.
C8_QueryErrorFatal ==
    /\ [][(pc = "connected" /\ ~FileContents(db, file).relations_ok /\ pc' = "loaded")
              => "error:Error executing query" \in ui']_vars
    /\ []C8_QueryErrorState

\* C8 witness: a run stopped after the query error.
C8_Witness ==
    /\ pc = "stopped"
    /\ "error:Error executing query" \in ui
    /\ "error:No data loaded" \in ui

\* ------------------------------------------------------------------- C9
\* C9 as claimed: the enriched table of every run is the one computed
\* from the current contents of the file.
C9_AsClaimed ==
    pc = "loaded" => data = LoadDataResult(FileContents(db, file)).df

\* C9 as amended: once load_data has returned, its result stays cached
\* for the life of the process and every later run takes the cached
\* table, whatever happens to the file.
C9_CachedForProcess ==
    [][cache # <<>> => (cache' = cache /\ (pc' = "loaded" => data' = cache[1].df))]_vars

\* C9 witness: a run after a rewrite of the file took the cached table,
\* which differs from the table of the rewritten file.
C9_Witness ==
    /\ pc = "loaded"
    /\ changes > 0
    /\ data = cache[1].df
    /\ data # LoadDataResult(FileContents(db, file)).df

\* ------------------------------------------------------------------ C10
C10_Matched(r) == r.Supervisor # NULL /\ r.Crates_Box # NULL

\* The selected rows of the base table that have a supervisor and a
\* crates-per-box value.
C10_Counted == SelectSeq(data, LAMBDA r : C10_Matched(r) /\ C1_Kept(r))

\* C10: every filtered row has a supervisor and a crates-per-box value;
\* the record count and the total metric are those of the selected rows
\* of the base table that have both (the total is the float64 sum numpy
\* forms of their ratios, and differs from the sum of these ratios as
\* real numbers by no more than the rounding of one addition per row);
\* and every row, column and cell of the displayed pivot comes from such
\* rows: its route and its day are those of a selected row that has
\* both, and a base row that lacks either adds nothing to the cell of
\* its route and day.
C10_UnmatchedNeverCounted ==
    filtered_data # <<>> =>
        LET counted == C10_Counted
        IN  /\ \A i \in 1..Len(filtered_data[1]) : C10_Matched(filtered_data[1][i])
            /\ metrics[1].records = Len(counted)
            /\ metrics[1].total_crt = SeriesSum(Ratios(counted))
            /\ SumWithin(metrics[1].total_crt,
                         Ratios(SelectSeq(counted, LAMBDA r : r.Crt_Box # NULL)),
                         Len(counted))
            /\ "pivot" \in ui =>
                   LET p == pivot_table[1]
                   IN  /\ \A i \in 1..Len(p.rows) : \E k \in 1..Len(counted) :
                              counted[k].Route = p.rows[i].Route
                       /\ \A j \in 1..Len(p.columns) : \E k \in 1..Len(counted) :
                              counted[k].Sales_Date[1] = p.columns[j]
                       /\ \A i \in 1..Len(p.rows) : \A j \in 1..Len(p.columns) :
                              p.rows[i].cells[j] =
                                  KahanSum(C5_RatiosOf(counted, p.rows[i].Route,
                                                       p.columns[j]))

\* C10 witness: with every option selected and the whole date range, a
\* base row without supervisor or crates-per-box is left out of a
\* filtered table of eight or more rows, whose total is not what adding
\* the ratios one after the other gives.
C10_Witness ==
    /\ pc = "done"
    /\ pivot_table # <<>>
    /\ selected_supervisors[1] = SupervisorOptions(data)
    /\ selected_crates_box[1] = CratesBoxOptions(data)
    /\ start_date[1] = MinDate(data)
    /\ end_date[1] = MaxDate(data)
    /\ \E i \in 1..Len(data) : ~C10_Matched(data[i]) /\ data[i].Crt_Box # NULL
    /\ Len(filtered_data[1]) >= PairwiseUnroll
    /\ metrics[1].total_crt #
           DoubleSum([i \in 1..Len(filtered_data[1]) |-> FillNa(filtered_data[1][i].Crt_Box)])

====
